---- MODULE Spec2Model ----
(***************************************************************************)
(* Session / credential reconciliation layer of the Twenty CRM MCP server. *)
(*                                                                         *)
(* The repository ships three entry points that share the same shape (a    *)
(* module-level `sessions` map, a getClient helper closed over by every    *)
(* tool, and HTTP handlers that bind and unbind registry entries):         *)
(*   "part010"    src/unnamed/part_010, streamable-http transport          *)
(*   "index_sse"  src/src/index.ts, sse transport                          *)
(*   "index_http" src/src/index.ts, streamable-http transport              *)
(*   "part006"    src/unnamed/part_006, sse transport                      *)
(* The entry point and transport are fixed at process start (argv), so the *)
(* variable `variant` is chosen in Init and never changes.                 *)
(*                                                                         *)
(* A second specification, SpecCache, covers token validation and the      *)
(* credential store behind it:                                             *)
(*   "oauth"      src/unnamed/part_009 (validateOAuthToken, admin routes)  *)
(*                over src/src/auth/database.ts                            *)
(*   "provider"   src/src/auth/api-key-oauth-provider.ts (tokenCache)      *)
(***************************************************************************)
EXTENDS Integers, Sequences, FiniteSets, TLC

\* ---------------------------------------------------------------- bounds
MaxClients  == 3    \* TwentyCRMClient instances constructed in one run
MaxInflight == 2    \* POST /mcp handlers of part_010 in flight at once

\* ---------------------------------------------------------------- domains
Variants == {"part010", "index_sse", "index_http", "part006"}
GoodKeys == {"k1", "k2"}           \* CRM keys the CRM accepts
ApiKeys  == GoodKeys \cup {"bad"}  \* "bad": testConnection() rejects it
NoKey    == "none"
ReqIds   == {0, 1}                 \* JSON-RPC request ids; 0 is falsy in JS
Uuids    == {1, 2}                 \* session ids randomUUID() hands out
UnknownId == 0                     \* a session id this process never issued

\* A TwentyCRMClient instance: `id` is the object identity, `key` its bearer.
NoClient == [id |-> 0, key |-> NoKey]
Client(i, k) == [id |-> i, key |-> k]

\* Keys of the `sessions` map are strings: a transport session id (a UUID),
\* or what the tools pass, String(extra?.requestId || 'default').
UuidKey(u) == <<"uuid", u>>
RequestKey(rid) == IF rid = 0 THEN <<"default", 0>> ELSE <<"req", rid>>

\* TwentyCRMClient.testConnection(): resolves iff the CRM accepts the key.
testConnection(k) == k \in GoodKeys

VARIABLES
  variant,               \* entry point / transport of this process
  sessions,              \* Map<string, Session>, in insertion order
  transports,            \* session ids with an open transport
  defaultClient,         \* index.ts: per-connection server's defaultClient
  currentRequestClient,  \* part_010: process-wide request-scoped client
  sessionTokens,         \* provider's sessionTokens map (session id -> key)
  req,                   \* part_010: POST handlers in flight
  nextClient,            \* identity of the next TwentyCRMClient constructed
  nextUuid,              \* next randomUUID()
  initKey,               \* part_010: the key each session was initialized with
  ev,                    \* observation of the last handled tool call
  env,                   \* process.env: STYTCH_*, DEFAULT_TWENTY_API_KEY
  now,                   \* the clock (Date.now() / CURRENT_TIMESTAMP), in ticks
  token_cache,           \* database.ts: table token_cache
  user_api_mappings,     \* database.ts: table user_api_mappings
  tokenCache,            \* api-key-oauth-provider.ts: Map<string, TokenInfo>
  obs,                 \* observation of the last validation or sweep
  calls,                 \* tools: CRM requests the last tool call made
  result,                \* tools: what the last tool call returned
  proc,                  \* part_006 main(): the process and its store
  authorizationCodes,    \* api-key-oauth-provider.ts: Map<string, {...}>
  exchanged,             \* history: codes POST /oauth/token has redeemed
  tokenResponse          \* the last response of the OAuth router

sessVars == <<sessions, transports, defaultClient, currentRequestClient,
              sessionTokens, req, nextClient, nextUuid, initKey, ev>>
cacheVars == <<env, now, token_cache, user_api_mappings, tokenCache, obs>>
toolVars == <<calls, result>>
codeVars == <<authorizationCodes, exchanged, tokenResponse>>
vars == <<variant, sessVars, cacheVars, toolVars, proc, codeVars>>

\* ------------------------------------------------------- Map<string, Session>
Has(m, k) == \E i \in 1..Len(m) : m[i].sid = k
IndexOf(m, k) == CHOOSE i \in 1..Len(m) : m[i].sid = k
\* Map.get: the client of the entry, NoClient when undefined
Get(m, k) == IF Has(m, k) THEN m[IndexOf(m, k)].client ELSE NoClient
\* Map.set keeps the position of an existing key, appends a new one
Set(m, k, c, by) ==
  LET e == [sid |-> k, client |-> c, by |-> by]
  IN IF Has(m, k) THEN [m EXCEPT ![IndexOf(m, k)] = e] ELSE Append(m, e)
\* Map.delete
Delete(m, k) == SelectSeq(m, LAMBDA e : e.sid # k)
\* first value of sessions.entries()
First(m) == IF Len(m) > 0 THEN m[1].client ELSE NoClient

\* ------------------------------------------------------------- getClient
\* part_010 createServer.getClient
getClient010(authenticatedClient, crc, m, k) ==
  IF authenticatedClient # NoClient THEN authenticatedClient
  ELSE IF crc # NoClient THEN crc
  ELSE IF Has(m, k) THEN Get(m, k)
  ELSE First(m)

\* index.ts createMcpServer.getClient
getClientIndex(dflt, m, k) ==
  IF Has(m, k) THEN Get(m, k)
  ELSE dflt

\* ------------------------------------------------------------ observations
\* clients of the entries that connection u itself bound
Mine(m, u) == {m[i].client : i \in {j \in 1..Len(m) : m[j].by = u}}

\* `ev` observes the operation just handled: NoEv, or for a tool call that
\* resolved its adapter:
\*   bearer   the CRM key presented with the call's own request (NoKey: none)
\*   sessKey  the CRM key the call's session was established with
\*   preAuth  the call's own connection/request had a pre-authenticated client
\*   exact    the registry had an entry under the key the tool passed
\*   own      the registry had an entry under the call's transport session id
\*   mine     the registry had an entry this connection bound itself
\*   from     which source the returned adapter is, by object identity
\*            ("none": getClient threw 'Not authenticated')
\*   isMine   the returned adapter is one this connection bound itself
\*   key      the bearer key of the returned adapter
\* What a tool handler gives back to the transport: a result
\* {content: [{type: 'text', text}], isError}, or an exception (thrown).
\* getClient throws Error('Not authenticated. ...') when it resolves nothing
\* (res = NoClient); every handler calls it inside its try block and its
\* catch returns the error's message with isError: true.  With an adapter
\* the CRM request is made, which the CRM refuses for a key it rejects.
NoResult == [isError |-> FALSE, thrown |-> FALSE, text |-> "none"]
toolHandler_escape(res) ==
  IF res = NoClient
  THEN [isError |-> FALSE, thrown |-> TRUE, text |-> "Not authenticated"]
  ELSE IF ~testConnection(res.key)
  THEN [isError |-> TRUE, thrown |-> FALSE, text |-> "Request failed"]
  ELSE [isError |-> FALSE, thrown |-> FALSE, text |-> "data"]
toolHandler(res) ==
  IF res = NoClient
  THEN [isError |-> TRUE, thrown |-> FALSE, text |-> "Not authenticated"]
  ELSE IF ~testConnection(res.key)
  THEN [isError |-> TRUE, thrown |-> FALSE, text |-> "Request failed"]
  ELSE [isError |-> FALSE, thrown |-> FALSE, text |-> "data"]

NoEv == [type |-> "none", bearer |-> NoKey, sessKey |-> NoKey,
         preAuth |-> FALSE, exact |-> FALSE,
         own |-> FALSE, mine |-> FALSE, from |-> "none", isMine |-> FALSE,
         key |-> NoKey, result |-> NoResult, checks |-> << >>]

Source(rid, pre, m, res) ==
  IF res = NoClient THEN "none"
  ELSE IF res = pre THEN "preAuth"
  ELSE IF res = Get(m, RequestKey(rid)) THEN "exact"
  ELSE "other"

ToolEv(u, rid, bearer, sessKey, pre, m, res) ==
  [type |-> "tool", bearer |-> bearer, sessKey |-> sessKey,
   preAuth |-> pre # NoClient,
   exact |-> Has(m, RequestKey(rid)), own |-> Has(m, UuidKey(u)),
   mine |-> Mine(m, u) # {}, from |-> Source(rid, pre, m, res),
   isMine |-> res \in Mine(m, u), key |-> res.key,
   result |-> toolHandler(res), checks |-> << >>]

\* =====================================================================
\* Token validation and credential store: unnamed/part_009 (auth/oauth.ts,
\* auth/admin-api.ts), auth/database.ts, auth/api-key-oauth-provider.ts
\* =====================================================================
\* Time is counted in ticks; a calendar day has TicksPerDay of them.
MaxTime     == 5    \* the clock stops advancing here
TicksPerDay == 2    \* ticks in one calendar day (24 * 60 * 60 * 1000 ms)
DefaultTtl  == 1    \* part_009: "Default 1 hour", in ticks
CharT       == 84   \* 'T', the date/time separator of Date.toISOString()
CharSpace   == 32   \* ' ', the date/time separator of CURRENT_TIMESTAMP

CacheVariants == {"oauth", "provider"}
Tokens == {"t1", "t2"}             \* bearer tokens presented to oauth.ts
Users  == {"u1", "u2"}             \* Stytch user ids
DevUser == "dev-user"
NoUser == "none"
Answers == {"ok", "rejected", "provider"}   \* of sessions.authenticate
Metadata == {"undefined", "a"}     \* metadata of a set request (or none given)
\* the user a Stytch session token belongs to (sessionResp.user.user_id)
StytchUser(t) == IF t = "t1" THEN "u1" ELSE "u2"

\* JWT bearers (token.startsWith('eyJ')) and the payload each one decodes
\* to: "eyJ1" carries an api_key and an exp claim, "eyJ2" carries neither
Jwts == {"eyJ1", "eyJ2"}
payload(t) ==
  IF t = "eyJ1" THEN [api_key |-> "k1", exp |-> 1]
  ELSE [api_key |-> NoKey, exp |-> 0]
Bearers == {"k1", "bad"} \cup Jwts   \* bearers presented to the provider

\* process.env as the modules read it at load time
Envs ==
  {[STYTCH_PROJECT_ID |-> TRUE,  STYTCH_SECRET |-> TRUE,
    DEFAULT_TWENTY_API_KEY |-> NoKey],
   [STYTCH_PROJECT_ID |-> TRUE,  STYTCH_SECRET |-> TRUE,
    DEFAULT_TWENTY_API_KEY |-> "k2"],
   [STYTCH_PROJECT_ID |-> TRUE,  STYTCH_SECRET |-> FALSE,
    DEFAULT_TWENTY_API_KEY |-> NoKey],
   [STYTCH_PROJECT_ID |-> FALSE, STYTCH_SECRET |-> FALSE,
    DEFAULT_TWENTY_API_KEY |-> NoKey]}
NoEnv == [STYTCH_PROJECT_ID |-> FALSE, STYTCH_SECRET |-> FALSE,
          DEFAULT_TWENTY_API_KEY |-> NoKey]
\* part_009:11 stytchClient is built when both variables are set;
\* part_006:141 initializeDatabase() runs when STYTCH_PROJECT_ID is set
stytchClient(e) == e.STYTCH_PROJECT_ID /\ e.STYTCH_SECRET
db(e) == e.STYTCH_PROJECT_ID

\* Date.toISOString(): "YYYY-MM-DD" 'T' "HH:MM:SS.sssZ".  A text is a
\* sequence of character codes; the zero-padded date and the time of day
\* are one code each (they order as the numbers do).
toISOString(t) == <<t \div TicksPerDay, CharT, t % TicksPerDay>>
\* SQLite's CURRENT_TIMESTAMP: "YYYY-MM-DD" ' ' "HH:MM:SS"
CURRENT_TIMESTAMP(t) == <<t \div TicksPerDay, CharSpace, t % TicksPerDay>>
\* new Date(text).getTime()
DateParse(s) == s[1] * TicksPerDay + s[3]

\* SQLite compares two TEXT values bytewise (BINARY collation)
RECURSIVE TextLess(_, _)
TextLess(a, b) ==
  IF a = << >> THEN b # << >>
  ELSE IF b = << >> THEN FALSE
  ELSE IF Head(a) # Head(b) THEN Head(a) < Head(b)
  ELSE TextLess(Tail(a), Tail(b))

NoRow  == [user |-> NoUser, key |-> NoKey, expires_at |-> << >>]
\* `checked` is history: the entry was stored after testConnection resolved
NoInfo == [key |-> NoKey, expiresAt |-> 0, checked |-> FALSE]
NoObs  == [type |-> "none", had |-> FALSE, exp |-> 0, at |-> 0,
           hit |-> FALSE, ok |-> FALSE, status |-> 0, user |-> NoUser,
           key |-> NoKey, meta |-> "undefined", removed |-> {},
           token |-> "none", error |-> "none", cause |-> "none",
           touched |-> NoUser]

\* ------------------------------------------------------------------ tools
\* JS undefined is "undefined"; the other strings are values a caller sends
NoParams == [content |-> "undefined", bodyMarkdown |-> "undefined",
             bodyBlocknote |-> "undefined", linkToCompanyId |-> "undefined",
             linkToPersonId |-> "undefined"]
NoCrm == [create |-> "none", company |-> FALSE, person |-> FALSE]
NoToolResult == [tool |-> "none", isError |-> FALSE, success |-> FALSE,
                 linked |-> << >>, failed |-> << >>,
                 params |-> NoParams, crm |-> NoCrm]

InitTools ==
  /\ calls = << >>
  /\ result = NoToolResult

\* --------------------------------------------------------------- process
\* phase: "starting" (main() has not reached app.listen), "listening",
\* "exited" (with `code`); tables: the tables initializeDatabase created;
\* failed: a step of initializeDatabase failed.
Tables == {"user_api_mappings", "token_cache"}
Proc(phase, code, tables, failed) ==
  [phase |-> phase, code |-> code, tables |-> tables, failed |-> failed]
Listening == Proc("listening", 0, Tables, FALSE)

\* ------------------------------------------------- authorization codes
CodeIds == Uuids \cup {UnknownId}  \* codes a client may present
NoSession == 0                     \* no session_id / cookie / header
NoCode == [apiKey |-> NoKey, clientId |-> "none", expiresAt |-> 0,
           sessionId |-> NoSession]
Response(type, code, status, access_token, error) ==
  [type |-> type, code |-> code, status |-> status,
   access_token |-> access_token, error |-> error]
NoResponse == Response("none", UnknownId, 0, NoKey, "none")

\* const authorizationCodes = new Map(); nothing redeemed, nothing answered
InitCodes ==
  /\ authorizationCodes = [c \in CodeIds |-> NoCode]
  /\ exchanged = {}
  /\ tokenResponse = NoResponse

InitSess ==
  /\ sessions = << >>
  /\ transports = {}
  /\ defaultClient = [u \in Uuids |-> NoClient]
  /\ currentRequestClient = NoClient
  /\ sessionTokens = [u \in Uuids |-> NoKey]
  /\ req = {}
  /\ nextClient = 1
  /\ nextUuid = 1
  /\ initKey = [u \in Uuids |-> NoKey]
  /\ ev = NoEv

InitStore ==
  /\ now = 0
  /\ token_cache = [t \in Tokens |-> NoRow]
  /\ user_api_mappings = {}
  /\ tokenCache = [t \in Bearers |-> NoInfo]
  /\ obs = NoObs

Init ==
  /\ variant \in Variants
  /\ env = NoEnv
  /\ InitSess
  /\ InitStore
  /\ InitTools
  /\ proc = Listening
  /\ InitCodes

\* =====================================================================
\* part_010, streamable-http: mcpPostHandler / transport.onclose
\* =====================================================================
\* `req` is the set of POST handlers in flight.  A handler is past its
\* synchronous prologue; what is still to come is its finally block
\* (fin = FALSE) and, for a tools/call, the tool handler the transport
\* dispatched (tool = TRUE).
Handler(u, k, rid, own, tool) ==
  [sid |-> u, key |-> k, rid |-> rid, own |-> own, tool |-> tool, fin |-> FALSE]

\* one obligation of handler h is done; the handler is dropped with its last
Settle(h, h2) ==
  IF h2.fin /\ ~h2.tool THEN req \ {h} ELSE (req \ {h}) \cup {h2}

\* POST /mcp with an mcp-session-id header u (a session id of this
\* process, open or closed, or UnknownId) and a bearer the middleware
\* accepted.  Lines 283-295 run before the transport lookup.  With a known
\* transport the request is handed to it (the tool runs asynchronously);
\* otherwise 400 is sent and the finally block runs in the same turn.
mcpPostHandler(u, k, rid) ==
  /\ variant = "part010"
  /\ u < nextUuid
  /\ Cardinality(req) < MaxInflight
  /\ nextClient <= MaxClients
  /\ LET client == Client(nextClient, k)
     IN /\ sessions' = Set(sessions, UuidKey(u), client, u)
        /\ IF u \in transports
           THEN /\ currentRequestClient' = client
                /\ req' = req \cup {Handler(u, k, rid, client, TRUE)}
           ELSE /\ currentRequestClient' = NoClient
                /\ req' = req
  /\ nextClient' = nextClient + 1
  /\ ev' = IF u \in transports THEN NoEv ELSE [NoEv EXCEPT !.type = "400"]
  /\ UNCHANGED <<cacheVars, toolVars, proc, codeVars>>
  /\ UNCHANGED <<variant, transports, defaultClient, sessionTokens, nextUuid,
                 initKey>>

\* POST /mcp without a session id, initialize request: a transport is
\* created and onsessioninitialized registers it and binds the session.
mcpPostInitialize(k) ==
  /\ variant = "part010"
  /\ Cardinality(req) < MaxInflight
  /\ nextClient <= MaxClients
  /\ nextUuid \in Uuids
  /\ LET client == Client(nextClient, k)
         u == nextUuid
     IN /\ transports' = transports \cup {u}
        /\ sessions' = Set(sessions, UuidKey(u), client, u)
        /\ currentRequestClient' = client
        /\ req' = req \cup {Handler(u, k, 0, client, FALSE)}
  /\ nextClient' = nextClient + 1
  /\ nextUuid' = nextUuid + 1
  /\ initKey' = [initKey EXCEPT ![nextUuid] = k]
  /\ ev' = NoEv
  /\ UNCHANGED <<cacheVars, toolVars, proc, codeVars>>
  /\ UNCHANGED <<variant, defaultClient, sessionTokens>>

\* POST /mcp without a session id that is no initialize request: 400, and
\* the finally block still resets the process-wide variable.
mcpPostNoSession ==
  /\ variant = "part010"
  /\ currentRequestClient' = NoClient
  /\ ev' = [NoEv EXCEPT !.type = "400"]
  /\ UNCHANGED <<cacheVars, toolVars, proc, codeVars>>
  /\ UNCHANGED <<variant, sessions, transports, defaultClient, sessionTokens,
                 req, nextClient, nextUuid, initKey>>

\* GET /mcp with an mcp-session-id header u or none (UnknownId stands for
\* both): without a known transport 400 is sent, otherwise the transport
\* opens the stream.  DELETE /mcp makes the same test before it hands the
\* request to the transport, which then closes (onclose).
mcpGetHandler(u) ==
  /\ variant = "part010"
  /\ u < nextUuid
  /\ ev' = IF u \in transports THEN NoEv ELSE [NoEv EXCEPT !.type = "400"]
  /\ UNCHANGED <<cacheVars, toolVars, proc, codeVars>>
  /\ UNCHANGED <<variant, sessions, transports, defaultClient,
                 currentRequestClient, sessionTokens, req, nextClient,
                 nextUuid, initKey>>

\* finally { currentRequestClient = null } once handleRequest has returned
mcpPostFinally(h) ==
  /\ variant = "part010"
  /\ h \in req /\ ~h.fin
  /\ currentRequestClient' = NoClient
  /\ req' = Settle(h, [h EXCEPT !.fin = TRUE])
  /\ ev' = NoEv
  /\ UNCHANGED <<cacheVars, toolVars, proc, codeVars>>
  /\ UNCHANGED <<variant, sessions, transports, defaultClient, sessionTokens,
                 nextClient, nextUuid, initKey>>

\* the dispatched tool handler calls getClient(String(requestId || 'default'))
\* on the server made by createServer() (no authenticatedClient)
toolCall010(h) ==
  /\ variant = "part010"
  /\ h \in req /\ h.tool
  /\ LET res == getClient010(NoClient, currentRequestClient, sessions,
                             RequestKey(h.rid))
         pre == IF currentRequestClient = h.own THEN h.own ELSE NoClient
     IN ev' = ToolEv(h.sid, h.rid, h.key, initKey[h.sid], pre, sessions, res)
  /\ req' = Settle(h, [h EXCEPT !.tool = FALSE])
  /\ UNCHANGED <<cacheVars, toolVars, proc, codeVars>>
  /\ UNCHANGED <<variant, sessions, transports, defaultClient,
                 currentRequestClient, sessionTokens, nextClient, nextUuid,
                 initKey>>

\* transport.onclose (DELETE /mcp, or the SIGINT loop closing transports)
onclose(u) ==
  /\ variant = "part010"
  /\ u \in transports
  /\ transports' = transports \ {u}
  /\ sessions' = Delete(sessions, UuidKey(u))
  /\ ev' = NoEv
  /\ UNCHANGED <<cacheVars, toolVars, proc, codeVars>>
  /\ UNCHANGED <<variant, defaultClient, currentRequestClient, sessionTokens,
                 req, nextClient, nextUuid, initKey>>

Next010 ==
  \/ \E u \in Uuids \cup {UnknownId}, k \in GoodKeys, rid \in ReqIds :
        mcpPostHandler(u, k, rid)
  \/ \E k \in GoodKeys : mcpPostInitialize(k)
  \/ mcpPostNoSession
  \/ \E u \in Uuids \cup {UnknownId} : mcpGetHandler(u)
  \/ \E h \in req : mcpPostFinally(h)
  \/ \E h \in req : toolCall010(h)
  \/ \E u \in Uuids : onclose(u)

\* =====================================================================
\* index.ts, sse transport: GET /sse, POST /messages, res 'close'
\* =====================================================================

\* GET /sse with bearer b (NoKey: no Authorization header).  A bearer that
\* passes neither verifyAccessToken nor the direct testConnection leaves
\* defaultClient undefined; the connection is accepted either way.
sseConnect(b) ==
  /\ variant = "index_sse"
  /\ nextUuid \in Uuids
  /\ nextClient <= MaxClients
  /\ LET u == nextUuid
         ok == testConnection(b)
     IN /\ defaultClient' = [defaultClient EXCEPT ![u] =
                               IF ok THEN Client(nextClient, b) ELSE NoClient]
        /\ nextClient' = IF ok THEN nextClient + 1 ELSE nextClient
        /\ transports' = transports \cup {u}
  /\ nextUuid' = nextUuid + 1
  /\ ev' = NoEv
  /\ UNCHANGED <<cacheVars, toolVars, proc, codeVars>>
  /\ UNCHANGED <<variant, sessions, currentRequestClient, sessionTokens, req,
                 initKey>>

\* the authenticate tool: binds under String(extra?.requestId || 'default')
\* once testConnection() has succeeded, by connection u
authenticate_eager(m, u, rid, k, id) ==
  Set(m, RequestKey(rid), Client(id, k), u)
authenticate(m, u, rid, k, id) ==
  IF testConnection(k) THEN Set(m, RequestKey(rid), Client(id, k), u) ELSE m
\* what the tool returns, and the observation of the call: `exact` tells
\* whether a binding under the tool's key was there before
authenticateResult(k) ==
  IF testConnection(k)
  THEN [isError |-> FALSE, thrown |-> FALSE, text |-> "Authentication successful"]
  ELSE [isError |-> TRUE, thrown |-> FALSE, text |-> "Authentication failed"]
AuthEv(m, rid, k) ==
  [NoEv EXCEPT !.type = "authenticate", !.bearer = k,
               !.exact = Has(m, RequestKey(rid)),
               !.result = authenticateResult(k)]

\* POST /messages?sessionId=u carrying tools/call authenticate
sseAuthenticate(u, rid, k) ==
  /\ variant = "index_sse"
  /\ u \in transports
  /\ nextClient <= MaxClients
  /\ sessions' = authenticate(sessions, u, rid, k, nextClient)
  /\ nextClient' = IF testConnection(k) THEN nextClient + 1 ELSE nextClient
  /\ ev' = AuthEv(sessions, rid, k)
  /\ UNCHANGED <<cacheVars, toolVars, proc, codeVars>>
  /\ UNCHANGED <<variant, transports, defaultClient, currentRequestClient,
                 sessionTokens, req, nextUuid, initKey>>

\* POST /messages?sessionId=u carrying a CRM tools/call
sseToolCall_unbind(u, rid) ==
  /\ variant = "index_sse"
  /\ u \in transports
  /\ LET res == getClientIndex(defaultClient[u], sessions, RequestKey(rid))
     IN ev' = ToolEv(u, rid, defaultClient[u].key, defaultClient[u].key,
                   defaultClient[u], sessions, res)
  /\ sessions' = Delete(sessions, RequestKey(rid))
  /\ UNCHANGED <<cacheVars, toolVars, proc, codeVars>>
  /\ UNCHANGED <<variant, transports, defaultClient,
                 currentRequestClient, sessionTokens, req, nextClient,
                 nextUuid, initKey>>
sseToolCall(u, rid) ==
  /\ variant = "index_sse"
  /\ u \in transports
  /\ LET res == getClientIndex(defaultClient[u], sessions, RequestKey(rid))
     IN ev' = ToolEv(u, rid, defaultClient[u].key, defaultClient[u].key,
                   defaultClient[u], sessions, res)
  /\ UNCHANGED <<cacheVars, toolVars, proc, codeVars>>
  /\ UNCHANGED <<variant, sessions, transports, defaultClient,
                 currentRequestClient, sessionTokens, req, nextClient,
                 nextUuid, initKey>>

\* res.on('close') of the GET /sse response
sseClose(u) ==
  /\ variant = "index_sse"
  /\ u \in transports
  /\ transports' = transports \ {u}
  /\ sessions' = Delete(sessions, UuidKey(u))
  /\ defaultClient' = [defaultClient EXCEPT ![u] = NoClient]
  /\ ev' = NoEv
  /\ UNCHANGED <<cacheVars, toolVars, proc, codeVars>>
  /\ UNCHANGED <<variant, currentRequestClient, sessionTokens, req,
                 nextClient, nextUuid, initKey>>

NextIndexSse ==
  \/ \E b \in ApiKeys \cup {NoKey} : sseConnect(b)
  \/ \E u \in Uuids, rid \in ReqIds, k \in ApiKeys : sseAuthenticate(u, rid, k)
  \/ \E u \in Uuids, rid \in ReqIds : sseToolCall(u, rid)
  \/ \E u \in Uuids : sseClose(u)

\* =====================================================================
\* index.ts, streamable-http transport: app.all('/mcp')
\* =====================================================================

\* provider.linkSessionToApiKey(sessionId, apiKey), reached from the
\* credential-entry POST and the token endpoint with a validated key; the
\* session id is the client's cookie/state, or a new one
linkSessionToApiKey(u, k) ==
  /\ variant = "index_http"
  /\ u <= nextUuid
  /\ sessionTokens' = [sessionTokens EXCEPT ![u] = k]
  /\ nextUuid' = IF u = nextUuid THEN nextUuid + 1 ELSE nextUuid
  /\ ev' = NoEv
  /\ UNCHANGED <<cacheVars, toolVars, proc, codeVars>>
  /\ UNCHANGED <<variant, sessions, transports, defaultClient,
                 currentRequestClient, req, nextClient, initKey>>

\* lines 233-258: the Bearer check; the client the request's server gets
BearerClient(b, id) == IF testConnection(b) THEN Client(id, b) ELSE NoClient

\* lines 233-258: the testConnection() calls the Bearer check issues, in
\* order.  verifyAccessToken answers from tokenCache without a call when
\* `cached` (possible only for a key the CRM accepted before), else checks
\* the token as a key and throws when the CRM refuses it; the handler then
\* checks the key verifyAccessToken returned, or, in its catch, the token
\* itself as a direct key.
Check(k) == [key |-> k, ok |-> testConnection(k)]
bearerChecks(b, cached) ==
  IF b = NoKey THEN << >>
  ELSE IF cached THEN <<Check(b)>>
  ELSE <<Check(b), Check(b)>>   \* tokenInfo.twentyApiKey = token, or the catch
\* whether tokenCache can hold a live entry for the bearer
CachedStates(b) == IF b # NoKey /\ testConnection(b) THEN BOOLEAN ELSE {FALSE}

\* lines 260-285: session-based fallback, binding only if absent
SessionFallback(m, u, b, id) ==
  IF ~testConnection(b) /\ sessionTokens[u] # NoKey /\ ~Has(m, UuidKey(u))
  THEN Set(m, UuidKey(u), Client(id, sessionTokens[u]), u)
  ELSE m

\* the session id of a request: header/cookie u, or randomUUID() when the
\* request carries none (fresh = TRUE)
HttpSession(u, fresh) ==
  /\ IF fresh THEN u = nextUuid ELSE u < nextUuid
  /\ nextUuid' = IF fresh THEN nextUuid + 1 ELSE nextUuid

\* a request to /mcp carrying a CRM tools/call
httpToolCall(u, fresh, b, rid, cached) ==
  /\ variant = "index_http"
  /\ HttpSession(u, fresh)
  /\ nextClient <= MaxClients
  /\ LET dflt == BearerClient(b, nextClient)
         m == SessionFallback(sessions, u, b, nextClient)
         res == getClientIndex(dflt, m, RequestKey(rid))
     IN /\ sessions' = m
        /\ nextClient' = IF dflt # NoClient \/ m # sessions
                         THEN nextClient + 1 ELSE nextClient
        /\ ev' = [ToolEv(u, rid, dflt.key, dflt.key, dflt, m, res)
                    EXCEPT !.checks = bearerChecks(b, cached)]
  /\ UNCHANGED <<cacheVars, toolVars, proc, codeVars>>
  /\ UNCHANGED <<variant, transports, defaultClient, currentRequestClient,
                 sessionTokens, req, initKey>>

\* a request to /mcp carrying tools/call authenticate
httpAuthenticate(u, fresh, b, rid, k) ==
  /\ variant = "index_http"
  /\ HttpSession(u, fresh)
  /\ nextClient + 1 <= MaxClients
  /\ LET m == SessionFallback(sessions, u, b, nextClient)
         id == IF m # sessions THEN nextClient + 1 ELSE nextClient
     IN /\ sessions' = authenticate(m, u, rid, k, id)
        /\ nextClient' = IF testConnection(k) THEN id + 1 ELSE id
  /\ ev' = AuthEv(sessions, rid, k)
  /\ UNCHANGED <<cacheVars, toolVars, proc, codeVars>>
  /\ UNCHANGED <<variant, transports, defaultClient, currentRequestClient,
                 sessionTokens, req, initKey>>

NextIndexHttp ==
  \/ \E u \in Uuids, k \in GoodKeys : linkSessionToApiKey(u, k)
  \/ \E u \in Uuids, fresh \in BOOLEAN, b \in ApiKeys \cup {NoKey}, rid \in ReqIds :
        \E cached \in CachedStates(b) : httpToolCall(u, fresh, b, rid, cached)
  \/ \E u \in Uuids, fresh \in BOOLEAN, b \in ApiKeys \cup {NoKey}, rid \in ReqIds,
        k \in ApiKeys : httpAuthenticate(u, fresh, b, rid, k)

\* =====================================================================
\* part_006, sse transport: GET /mcp/sse, req 'close'
\* =====================================================================

\* GET /mcp/sse: k is the key validateOAuthToken attached to the request
\* (NoKey: no Authorization header); the session id is a local randomUUID()
sse006Connect(k) ==
  /\ variant = "part006"
  /\ nextUuid \in Uuids
  /\ nextClient <= MaxClients
  /\ LET u == nextUuid
     IN /\ sessions' = IF k # NoKey
                       THEN Set(sessions, UuidKey(u), Client(nextClient, k), u)
                       ELSE sessions
        /\ transports' = transports \cup {u}
  /\ nextClient' = IF k # NoKey THEN nextClient + 1 ELSE nextClient
  /\ nextUuid' = nextUuid + 1
  /\ ev' = NoEv
  /\ UNCHANGED <<cacheVars, toolVars, proc, codeVars>>
  /\ UNCHANGED <<variant, defaultClient, currentRequestClient, sessionTokens,
                 req, initKey>>

\* req.on('close')
sse006Close(u) ==
  /\ variant = "part006"
  /\ u \in transports
  /\ transports' = transports \ {u}
  /\ sessions' = Delete(sessions, UuidKey(u))
  /\ ev' = NoEv
  /\ UNCHANGED <<cacheVars, toolVars, proc, codeVars>>
  /\ UNCHANGED <<variant, defaultClient, currentRequestClient, sessionTokens,
                 req, nextClient, nextUuid, initKey>>

Next006 ==
  \/ \E k \in GoodKeys \cup {NoKey} : sse006Connect(k)
  \/ \E u \in Uuids : sse006Close(u)

Next == Next010 \/ NextIndexSse \/ NextIndexHttp \/ Next006

Spec == Init /\ [][Next]_vars

\* =====================================================================
\* auth/database.ts
\* =====================================================================
\* A row of user_api_mappings.  metadata is the TEXT column holding
\* JSON.stringify(metadata); the parameter defaults to {} when omitted.
JSONstringify(metadata) ==
  IF metadata = "undefined" THEN <<"{", "}">> ELSE <<"{", metadata, "}">>
Mapping(u, k, metadata) ==
  [stytch_user_id |-> u, twenty_api_key_encrypted |-> k,
   metadata |-> JSONstringify(metadata)]

\* a plain INSERT, which would keep a row already stored under the key
insertOrReplace_keep(m, row) == m \cup {row}
\* INSERT OR REPLACE on PRIMARY KEY stytch_user_id: a conflicting row is
\* deleted before the new one is inserted
insertOrReplace(m, row) ==
  {r \in m : r.stytch_user_id # row.stytch_user_id} \cup {row}

\* SELECT twenty_api_key_encrypted ... WHERE stytch_user_id = ? (db.get
\* yields one row, or none)
selectKey(m, u) ==
  IF \E r \in m : r.stytch_user_id = u
  THEN (CHOOSE r \in m : r.stytch_user_id = u).twenty_api_key_encrypted
  ELSE NoKey

\* getApiKeyForUser: the stored key, else DEFAULT_TWENTY_API_KEY || null
getApiKeyForUser(m, e, u) ==
  IF selectKey(m, u) # NoKey THEN selectKey(m, u)
  ELSE e.DEFAULT_TWENTY_API_KEY

\* getApiKeyForUser: the identity whose row its UPDATE ... SET last_used =
\* CURRENT_TIMESTAMP refreshes; the UPDATE is issued only when the SELECT
\* found a row
lastUsedUpdate(m, u) == IF selectKey(m, u) # NoKey THEN u ELSE NoUser

\* cacheToken: INSERT OR REPLACE ... VALUES (?, ?, ?, expiresAt.toISOString())
cacheToken(tc, t, u, k, expiresAt) ==
  [tc EXCEPT ![t] = [user |-> u, key |-> k,
                     expires_at |-> toISOString(expiresAt)]]

\* WHERE expires_at > CURRENT_TIMESTAMP
rowLive(row, n) == TextLess(CURRENT_TIMESTAMP(n), row.expires_at)
\* a DELETE that selects the rows still live
rowExpired_live(row, n) == TextLess(CURRENT_TIMESTAMP(n), row.expires_at)
\* WHERE expires_at <= CURRENT_TIMESTAMP
rowExpired(row, n) == ~TextLess(CURRENT_TIMESTAMP(n), row.expires_at)

\* checkTokenCache: the row of the token if the WHERE clause selects it
checkTokenCache(tc, t, n) ==
  IF tc[t] # NoRow /\ rowLive(tc[t], n) THEN tc[t] ELSE NoRow

\* what an admin route did: the operation, whether a row was stored for the
\* user before it, the HTTP status, and the request's inputs
Admin(type, had, status, u, k, metadata) ==
  [NoObs EXCEPT !.type = type, !.had = had, !.at = now,
                !.ok = (status = 200), !.status = status, !.user = u,
                !.key = k, !.meta = metadata]

\* POST /admin/users/:userId/api-key -> setApiKeyForUser (INSERT OR REPLACE);
\* without a database the call throws and the handler answers 500
setApiKeyForUser(u, k, metadata) ==
  /\ variant = "oauth"
  /\ user_api_mappings' =
       IF db(env)
       THEN insertOrReplace(user_api_mappings, Mapping(u, k, metadata))
       ELSE user_api_mappings
  /\ obs' = Admin("set", selectKey(user_api_mappings, u) # NoKey,
                  IF db(env) THEN 200 ELSE 500, u, k, metadata)
  /\ UNCHANGED <<variant, sessVars, toolVars, proc, codeVars, env, now, token_cache, tokenCache>>

\* a removal that leaves token_cache alone
deleteCachedTokens_none(tc, u) == tc
\* DELETE FROM token_cache WHERE stytch_user_id = ?
deleteCachedTokens(tc, u) ==
  [t \in Tokens |-> IF tc[t].user = u THEN NoRow ELSE tc[t]]

\* DELETE /admin/users/:userId/api-key -> removeApiKeyForUser: both DELETEs;
\* without a database the call throws and the handler answers 500
removeApiKeyForUser(u) ==
  /\ variant = "oauth"
  /\ user_api_mappings' =
       IF db(env) THEN {r \in user_api_mappings : r.stytch_user_id # u}
       ELSE user_api_mappings
  /\ token_cache' =
       IF db(env) THEN deleteCachedTokens(token_cache, u) ELSE token_cache
  /\ obs' = [Admin("remove", selectKey(user_api_mappings, u) # NoKey,
                   IF db(env) THEN 200 ELSE 500, u,
                   selectKey(user_api_mappings, u), "undefined")
             EXCEPT !.removed =
               IF db(env)
               THEN {DateParse(token_cache[t].expires_at) :
                       t \in {x \in Tokens : token_cache[x].user = u}}
               ELSE {}]
  /\ UNCHANGED <<variant, sessVars, toolVars, proc, codeVars, env, now, tokenCache>>

\* cleanupExpiredTokens: one DELETE statement
cleanupExpiredTokens ==
  /\ variant = "oauth"
  /\ db(env)
  /\ LET gone == {t \in Tokens :
                    token_cache[t] # NoRow /\ rowExpired(token_cache[t], now)}
     IN /\ token_cache' = [t \in Tokens |->
                             IF t \in gone THEN NoRow ELSE token_cache[t]]
        /\ obs' = [NoObs EXCEPT
                     !.type = "sweep", !.at = now,
                     !.removed = {DateParse(token_cache[t].expires_at) :
                                    t \in gone}]
  /\ UNCHANGED <<variant, sessVars, toolVars, proc, codeVars, env, now, user_api_mappings, tokenCache>>

\* =====================================================================
\* unnamed/part_009 (auth/oauth.ts): validateOAuthToken
\* =====================================================================
\* `answer` and `exp` are the outcome of stytchClient.sessions.authenticate
\* for the token: "ok" (accepted), "rejected" (Stytch refuses the token) or
\* "provider" (the call fails before Stytch answers: network, configuration),
\* and session.expires_at (0: none given).
\* validate is the body of validateOAuthToken: what it attaches to the
\* request or answers (obs') and what it writes to token_cache.
Validated(t, row, hit, status, u, k) ==
  [type |-> "validate", had |-> row # NoRow,
   exp |-> IF row # NoRow THEN DateParse(row.expires_at) ELSE 0,
   at |-> now, hit |-> hit, ok |-> status = 200, status |-> status,
   user |-> u, key |-> k, meta |-> "undefined", removed |-> {},
   token |-> t, error |-> "none", cause |-> "none", touched |-> NoUser]

\* The answer validateOAuthToken sends itself: res.status(status).json({error})
\* `cause` records which step failed: "store" (checkTokenCache threw),
\* "provider" (sessions.authenticate could not reach Stytch), "rejected"
\* (Stytch refused the token), "no_mapping" (no key for the identity).
Answered(t, row, status, u, error, cause) ==
  [Validated(t, row, FALSE, status, u, NoKey)
     EXCEPT !.error = error, !.cause = cause]

validate(t, answer, exp) ==
     LET row    == token_cache[t]
         cached == checkTokenCache(token_cache, t, now)
         userId == StytchUser(t)
         twentyApiKey == getApiKeyForUser(user_api_mappings, env, userId)
         expiresAt == IF exp # 0 THEN exp ELSE now + DefaultTtl
     IN IF ~db(env)                 \* checkTokenCache throws; catch -> 401
        THEN /\ obs' = Answered(t, NoRow, 401, NoUser, "invalid_token", "store")
             /\ UNCHANGED token_cache
        ELSE IF cached # NoRow
        THEN /\ obs' = Validated(t, row, TRUE, 200, cached.user, cached.key)
             /\ UNCHANGED token_cache
        ELSE IF ~stytchClient(env)  \* the bearer is taken as the key
        THEN /\ obs' = Validated(t, row, FALSE, 200, DevUser, t)
             /\ UNCHANGED token_cache
        ELSE IF answer # "ok"       \* authenticate throws; catch -> 401
        THEN /\ obs' = Answered(t, row, 401, NoUser, "invalid_token", answer)
             /\ UNCHANGED token_cache
        ELSE IF "user_api_mappings" \notin proc.tables
                                    \* getApiKeyForUser rejects; catch -> 401
        THEN /\ obs' = Answered(t, row, 401, NoUser, "invalid_token", "store")
             /\ UNCHANGED token_cache
        ELSE IF twentyApiKey = NoKey
        THEN /\ obs' = [Answered(t, row, 403, userId, "forbidden", "no_mapping")
                         EXCEPT !.touched =
                            lastUsedUpdate(user_api_mappings, userId)]
             /\ UNCHANGED token_cache
        ELSE /\ token_cache' =
                  cacheToken(token_cache, t, userId, twentyApiKey, expiresAt)
             /\ obs' = [Validated(t, row, FALSE, 200, userId, twentyApiKey)
                         EXCEPT !.touched =
                            lastUsedUpdate(user_api_mappings, userId)]

\* validateOAuthToken as the middleware of a request that does nothing else
validateOAuthToken(t, answer, exp) ==
  /\ variant = "oauth"
  /\ validate(t, answer, exp)
  /\ UNCHANGED <<variant, sessVars, toolVars, proc, codeVars, env, now, user_api_mappings, tokenCache>>

\* =====================================================================
\* auth/api-key-oauth-provider.ts: verifyAccessToken / cleanupCache
\* =====================================================================
\* cached && (!cached.expiresAt || cached.expiresAt > new Date()); every
\* tokenCache.set in the file stores an expiresAt
cacheFresh(info, n) == info # NoInfo /\ info.expiresAt > n
\* info.expiresAt && info.expiresAt < now
cacheStale(info, n) == info # NoInfo /\ info.expiresAt < n

Verified(token, info, hit, ok, k) ==
  [type |-> "verify", had |-> info # NoInfo, exp |-> info.expiresAt,
   at |-> now, hit |-> hit, ok |-> ok, status |-> IF ok THEN 200 ELSE 401,
   user |-> NoUser, key |-> k, meta |-> "undefined", removed |-> {},
   token |-> token, error |-> "none", cause |-> "none", touched |-> NoUser]

verifyAccessToken(token) ==
  /\ variant = "provider"
  /\ LET cached == tokenCache[token]
         p      == payload(token)
         jwtExp == IF p.exp # 0 THEN p.exp ELSE now + TicksPerDay
         apiKey == IF token \in Jwts /\ p.api_key # NoKey THEN p.api_key
                   ELSE token
         \* a JWT without an api key claim is accepted unchecked
         accept == IF token \in Jwts /\ p.api_key = NoKey THEN TRUE
                   ELSE testConnection(apiKey)
         checked == IF token \in Jwts /\ p.api_key = NoKey THEN FALSE
                    ELSE testConnection(apiKey)
         info   == [key |-> apiKey,
                    expiresAt |-> IF token \in Jwts THEN jwtExp
                                  ELSE now + TicksPerDay,
                    checked |-> checked]
     IN IF cacheFresh(cached, now)
        THEN /\ obs' = [Verified(token, cached, TRUE, TRUE, cached.key)
                           EXCEPT !.cause = "cache"]
             /\ UNCHANGED tokenCache
        ELSE IF accept
        THEN /\ tokenCache' = [tokenCache EXCEPT ![token] = info]
             /\ obs' = [Verified(token, cached, FALSE, TRUE, apiKey)
                           EXCEPT !.cause = IF checked THEN "checked"
                                            ELSE "unchecked"]
        ELSE /\ obs' = Verified(token, cached, FALSE, FALSE, NoKey)
             /\ UNCHANGED tokenCache
  /\ UNCHANGED <<variant, sessVars, toolVars, proc, codeVars, env, now, token_cache, user_api_mappings>>

\* cleanupCache: a synchronous loop over tokenCache.entries()
cleanupCache ==
  /\ variant = "provider"
  /\ LET gone == {t \in Bearers : cacheStale(tokenCache[t], now)}
     IN /\ tokenCache' = [t \in Bearers |->
                            IF t \in gone THEN NoInfo ELSE tokenCache[t]]
        /\ obs' = [NoObs EXCEPT
                     !.type = "sweep", !.at = now,
                     !.removed = {tokenCache[t].expiresAt : t \in gone}]
  /\ UNCHANGED <<variant, sessVars, toolVars, proc, codeVars, env, now, token_cache, user_api_mappings>>

\* the clock advances (new Date(), Date.now(), CURRENT_TIMESTAMP)
Tick ==
  /\ variant \in CacheVariants
  /\ now < MaxTime
  /\ now' = now + 1
  /\ obs' = NoObs
  /\ UNCHANGED <<variant, sessVars, toolVars, proc, codeVars, env, token_cache, user_api_mappings,
                 tokenCache>>

InitCache ==
  /\ variant \in CacheVariants
  /\ env \in (IF variant = "oauth" THEN Envs ELSE {NoEnv})
  /\ InitSess
  /\ InitStore
  /\ InitTools
  /\ proc = Listening
  /\ InitCodes

NextOauth ==
  \/ \E u \in Users, k \in GoodKeys, metadata \in Metadata :
        setApiKeyForUser(u, k, metadata)
  \/ \E u \in Users : removeApiKeyForUser(u)
  \/ \E t \in Tokens, answer \in Answers, exp \in {0, now + TicksPerDay} :
        validateOAuthToken(t, answer, exp)
  \/ cleanupExpiredTokens

NextProvider ==
  \/ \E token \in Bearers : verifyAccessToken(token)
  \/ cleanupCache

NextCache == NextOauth \/ NextProvider \/ Tick

SpecCache == InitCache /\ [][NextCache]_vars

\* =====================================================================
\* part_006: the streamable-http /mcp route behind validateOAuthToken
\* =====================================================================
\* Session ids of this route: the identity id of an authenticated request,
\* else the mcp-session-id header, else a randomUUID().
UserKey(u) == <<"user", u>>
NoSessionId == <<"none", 0>>     \* no mcp-session-id header
\* user_api_mappings rows the database file holds when the process starts
StoredTables == {{}, {Mapping("u1", "k1", "undefined")}}

\* What one request to /mcp did:
\*   token    the bearer presented (NoKey: no Authorization header)
\*   sent     the status validateOAuthToken answered itself (0: none)
\*   authed   authenticatedUser was set
\*   sid      the session id the request was served under
\*   created  a new MCP server and transport were created for it
\*   handled  the request was passed to transport.handleRequest
\*   key      the CRM key of the adapter registered under sid afterwards
Http(token, sent, authed, sid, created, handled, key) ==
  [type |-> "http", token |-> token, sent |-> sent, authed |-> authed,
   sid |-> sid, created |-> created, handled |-> handled, key |-> key]

\* app.all('/mcp'): `hdr` is the mcp-session-id header, `answer` and `exp`
\* the identity provider's answer for the bearer b.
mcp006(b, hdr, answer, exp) ==
  /\ variant = "part006_http"
  /\ proc.phase = "listening"
  /\ IF b # NoKey
     THEN validate(b, answer, exp)
     ELSE obs' = NoObs /\ UNCHANGED token_cache
  /\ LET authed == b # NoKey /\ obs'.ok /\ obs'.user # NoUser /\ obs'.key # NoKey
         sent == IF b # NoKey /\ ~obs'.ok THEN obs'.status ELSE 0
         sessionId == IF authed THEN UserKey(obs'.user) ELSE hdr
         reuse == sessionId # NoSessionId /\ sessionId \in transports
         newSessionId == IF sessionId # NoSessionId THEN sessionId
                         ELSE UuidKey(nextUuid)
         sid == IF reuse THEN sessionId ELSE newSessionId
     IN /\ ~reuse => Cardinality(req) < MaxInflight
        /\ (~reuse /\ sessionId = NoSessionId) => nextUuid \in Uuids
        /\ (~reuse /\ authed) => nextClient <= MaxClients
        /\ transports' = IF reuse THEN transports
                         ELSE transports \cup {newSessionId}
        /\ sessions' = IF ~reuse /\ authed
                       THEN Set(sessions, newSessionId,
                                Client(nextClient, obs'.key), newSessionId)
                       ELSE sessions
        /\ nextClient' = IF ~reuse /\ authed THEN nextClient + 1 ELSE nextClient
        /\ nextUuid' = IF ~reuse /\ sessionId = NoSessionId
                       THEN nextUuid + 1 ELSE nextUuid
        \* res.on('close') is registered by the request that created the
        \* transport only
        /\ req' = IF reuse THEN req
                  ELSE req \cup {[sid |-> newSessionId, token |-> b]}
        /\ ev' = Http(b, sent, authed, sid, ~reuse, TRUE,
                      Get(sessions', sid).key)
  /\ UNCHANGED <<variant, defaultClient, currentRequestClient, sessionTokens,
                 initKey, env, now, user_api_mappings, tokenCache, toolVars, proc, codeVars>>

\* res 'close' of a request that created a transport
close006(r) ==
  /\ variant = "part006_http"
  /\ proc.phase = "listening"
  /\ r \in req
  /\ transports' = transports \ {r.sid}
  /\ sessions' = Delete(sessions, r.sid)
  /\ req' = req \ {r}
  /\ ev' = NoEv
  /\ obs' = NoObs
  /\ UNCHANGED <<variant, defaultClient, currentRequestClient, sessionTokens,
                 nextClient, nextUuid, initKey, env, now, token_cache,
                 user_api_mappings, tokenCache, toolVars, proc, codeVars>>

\* main() up to app.listen, with initializeDatabase().  mkdir, open, create1
\* and create2 tell whether creating the data directory, opening
\* mappings.db and the two CREATE TABLE statements succeed.  Only
\* mkdirSync (it throws) and the second CREATE TABLE (its callback rejects)
\* are observed by initializeDatabase: the rejection reaches main().catch,
\* which exits with 1.  `new Database(path)` and the first db.run are given
\* no callback; `raised` is whether the sqlite3 binding turns such an
\* unobserved error into an uncaught exception, which ends the process.
\* Statements on a database that failed to open fail too.
main006(mkdir, open, create1, create2, raised) ==
  /\ variant = "part006_http"
  /\ proc.phase = "starting"
  /\ LET c1 == open /\ create1
         c2 == open /\ create2
         failed == ~mkdir \/ ~c1 \/ ~c2
     IN proc' =
          IF ~env.STYTCH_PROJECT_ID THEN Proc("listening", 0, {}, FALSE)
          ELSE IF ~mkdir THEN Proc("exited", 1, {}, TRUE)
          ELSE IF ~c1 /\ raised THEN Proc("exited", 1, {}, TRUE)
          ELSE IF ~c2
          THEN Proc("exited", 1, IF c1 THEN {"user_api_mappings"} ELSE {}, TRUE)
          ELSE Proc("listening", 0,
                    (IF c1 THEN {"user_api_mappings"} ELSE {})
                    \cup {"token_cache"}, failed)
  /\ UNCHANGED <<variant, sessVars, cacheVars, toolVars, codeVars>>

Init006 ==
  /\ variant = "part006_http"
  /\ env \in Envs
  /\ InitSess
  /\ now = 0
  /\ token_cache = [t \in Tokens |-> NoRow]
  /\ user_api_mappings \in StoredTables
  /\ tokenCache = [t \in Bearers |-> NoInfo]
  /\ obs = NoObs
  /\ InitTools
  /\ proc = Proc("starting", 0, {}, FALSE)
  /\ InitCodes

Next006Http ==
  \/ \E b \in Tokens \cup {NoKey}, answer \in Answers,
        hdr \in {NoSessionId, UuidKey(UnknownId)} \cup transports :
        mcp006(b, hdr, answer, 0)
  \/ \E r \in req : close006(r)
  \/ \E mkdir \in BOOLEAN, open \in BOOLEAN, create1 \in BOOLEAN,
        create2 \in BOOLEAN, raised \in BOOLEAN :
        main006(mkdir, open, create1, create2, raised)

Spec006 == Init006 /\ [][Next006Http]_vars

\* =====================================================================
\* tools/tasks.ts, tools/notes.ts, unnamed/part_005: create and update
\* =====================================================================
\* The registration modules for tasks and notes, by the shape of their body
\* argument: `content` (tasks.ts 1-533, part_005) or
\* bodyMarkdown/bodyBlocknote (tasks.ts 534-1056, notes.ts).
ToolVariants == {"tasks_content", "tasks_body", "notes_body", "notes_content"}
ContentVariants == {"tasks_content", "notes_content"}
TaskVariants == {"tasks_content", "tasks_body"}

Strings == {"undefined", "", " ", "md"}     \* body arguments
LinkIds == {"undefined", "", "id"}          \* linkToCompanyId, linkToPersonId
CrmAnswers == {"ok", "noid", "error"}       \* of the request for the entity

\* JS truthiness of an optional string, and String.prototype.trim
truthy(x) == x \notin {"undefined", ""}
trim(x) == IF x = " " THEN "" ELSE x

\* The bodyV2 member of a payload: absent, or an object with some fields
NoBodyV2 == [has |-> FALSE, fields |-> {}]
BodyV2(fields) == [has |-> TRUE, fields |-> fields]
Field(name, x) == {<<name, x>>}

\* create-task / create-note
createBodyV2(v, p) ==
  IF v \in ContentVariants
  THEN IF truthy(p.content) /\ truthy(trim(p.content))
       THEN BodyV2(Field("markdown", trim(p.content)) \cup Field("blocknote", ""))
       ELSE NoBodyV2
  ELSE IF v = "tasks_body"
  THEN IF truthy(p.bodyMarkdown) \/ truthy(p.bodyBlocknote)
       THEN BodyV2((IF truthy(p.bodyMarkdown)
                    THEN Field("markdown", p.bodyMarkdown) ELSE {})
                   \cup (IF truthy(p.bodyBlocknote)
                         THEN Field("blocknote", p.bodyBlocknote) ELSE {}))
       ELSE NoBodyV2
  ELSE IF truthy(p.bodyMarkdown) \/ truthy(p.bodyBlocknote)
       THEN LET fields ==
                  (IF truthy(p.bodyMarkdown) /\ truthy(trim(p.bodyMarkdown))
                   THEN Field("markdown", p.bodyMarkdown) ELSE {})
                  \cup (IF truthy(p.bodyBlocknote) /\ truthy(trim(p.bodyBlocknote))
                        THEN Field("blocknote", p.bodyBlocknote) ELSE {})
            IN \* Object.keys(noteData.bodyV2).length === 0: delete
               IF fields = {} THEN NoBodyV2 ELSE BodyV2(fields)
       ELSE NoBodyV2

\* update-task / update-note
updateBodyV2(v, p) ==
  IF v \in ContentVariants
  THEN IF p.content # "undefined"
       THEN BodyV2(Field("markdown", IF truthy(p.content) THEN p.content ELSE "")
                   \cup Field("blocknote", ""))
       ELSE NoBodyV2
  ELSE IF p.bodyMarkdown # "undefined" \/ p.bodyBlocknote # "undefined"
       THEN BodyV2((IF p.bodyMarkdown # "undefined"
                    THEN Field("markdown", p.bodyMarkdown) ELSE {})
                   \cup (IF p.bodyBlocknote # "undefined"
                         THEN Field("blocknote", p.bodyBlocknote) ELSE {}))
       ELSE NoBodyV2

\* client.makeRequest(method, path, payload); target: what a link call links
Request(method, path, body, target) ==
  [method |-> method, path |-> path, bodyV2 |-> body, target |-> target]
EntityPath(v) == IF v \in TaskVariants THEN "/tasks" ELSE "/notes"
TargetPath(v) == IF v \in TaskVariants THEN "/taskTargets" ELSE "/noteTargets"

\* the link calls a create makes once the entity has an id, in order
linkCalls(v, p) ==
  (IF truthy(p.linkToCompanyId)
   THEN <<Request("POST", TargetPath(v), NoBodyV2, "company")>> ELSE << >>)
  \o (IF truthy(p.linkToPersonId)
      THEN <<Request("POST", TargetPath(v), NoBodyV2, "person")>> ELSE << >>)

\* the links attempted whose call ended as `ok`, in order of attempt
links(p, crm, ok) ==
  (IF truthy(p.linkToCompanyId) /\ crm.company = ok
   THEN <<"company">> ELSE << >>)
  \o (IF truthy(p.linkToPersonId) /\ crm.person = ok
      THEN <<"person">> ELSE << >>)

\* the outer catch: {content: [text: 'Error ...'], isError: true}
ToolError(tool, p, crm) ==
  [NoToolResult EXCEPT !.tool = tool, !.isError = TRUE, !.params = p,
                       !.crm = crm]

\* The result of a create whose entity was created.  `linked` are the
\* entries of linkedTargets (the "Linked to ..." lines of linksCreated),
\* `failed` those of linkingErrors (the "Failed to link to ..." lines).
createResult_escalate(p, crm) ==
  IF links(p, crm, FALSE) # << >> THEN ToolError("create", p, crm)
  ELSE [NoToolResult EXCEPT !.tool = "create", !.success = TRUE,
                            !.linked = links(p, crm, TRUE),
                            !.params = p, !.crm = crm]
createResult(p, crm) ==
  [NoToolResult EXCEPT !.tool = "create", !.success = TRUE,
                       !.linked = links(p, crm, TRUE),
                       !.failed = links(p, crm, FALSE),
                       !.params = p, !.crm = crm]

\* the requests a create issues, in order: the POST for the entity is
\* awaited, and without an id in its answer the handler throws before any
\* link call
createCalls_eager(v, p, crm) ==
  <<Request("POST", EntityPath(v), createBodyV2(v, p), "none")>>
  \o linkCalls(v, p)
createCalls(v, p, crm) ==
  <<Request("POST", EntityPath(v), createBodyV2(v, p), "none")>>
  \o (IF crm.create = "ok" THEN linkCalls(v, p) ELSE << >>)

\* create-task / create-note with a resolved adapter.  crm.create is the
\* CRM's answer to the POST for the entity ("noid": a response without an
\* id), crm.company and crm.person whether the link calls succeed.
createTool(p, crm) ==
  /\ variant \in ToolVariants
  /\ calls' = createCalls(variant, p, crm)
  /\ result' = IF crm.create = "ok" THEN createResult(p, crm)
               ELSE ToolError("create", p, crm)
  /\ UNCHANGED <<variant, sessVars, cacheVars, proc, codeVars>>

\* update-task / update-note with a resolved adapter
updateTool(p, crm) ==
  /\ variant \in ToolVariants
  /\ calls' = <<Request("PATCH", EntityPath(variant),
                        updateBodyV2(variant, p), "none")>>
  /\ result' = IF crm.create # "error"
               THEN [NoToolResult EXCEPT !.tool = "update", !.success = TRUE,
                                         !.params = p, !.crm = crm]
               ELSE ToolError("update", p, crm)
  /\ UNCHANGED <<variant, sessVars, cacheVars, proc, codeVars>>

\* the arguments a caller can send to the module `v`
Params(v) ==
  IF v \in ContentVariants
  THEN {[NoParams EXCEPT !.content = c, !.linkToCompanyId = lc,
                         !.linkToPersonId = lp] :
          c \in Strings, lc \in LinkIds, lp \in LinkIds}
  ELSE {[NoParams EXCEPT !.bodyMarkdown = m, !.bodyBlocknote = b,
                         !.linkToCompanyId = lc, !.linkToPersonId = lp] :
          m \in Strings, b \in Strings, lc \in LinkIds, lp \in LinkIds}

InitToolsSpec ==
  /\ variant \in ToolVariants
  /\ env = NoEnv
  /\ InitSess
  /\ InitStore
  /\ InitTools
  /\ proc = Listening
  /\ InitCodes

\* the ways a link call can end: it is made only for a created entity and
\* a link id that is given
LinkOutcomes(c, id) == IF c = "ok" /\ truthy(id) THEN BOOLEAN ELSE {FALSE}

NextTools ==
  \/ \E p \in Params(variant), c \in CrmAnswers :
        \E lc \in LinkOutcomes(c, p.linkToCompanyId),
           lp \in LinkOutcomes(c, p.linkToPersonId) :
           createTool(p, [create |-> c, company |-> lc, person |-> lp])
  \/ \E p \in {q \in Params(variant) : q.linkToCompanyId = "undefined"
                                       /\ q.linkToPersonId = "undefined"},
        c \in CrmAnswers :
        updateTool(p, [create |-> c, company |-> FALSE, person |-> FALSE])

SpecTools == InitToolsSpec /\ [][NextTools]_vars

\* =====================================================================
\* Properties of the session registry
\* =====================================================================

\* session ids whose transport-close signal has been processed (every id
\* handed out gets a transport in these entry points)
Closed ==
  IF variant \in {"part010", "index_sse", "part006"}
  THEN {u \in Uuids : u < nextUuid /\ u \notin transports}
  ELSE {}

\* C1: a tool call whose session has no resolved credential (no
\* pre-authenticated client of its own, no registry entry under its session
\* id, no entry it bound itself) fails with the authentication error,
\* whatever else the registry holds.
C1_UnauthenticatedCallFails ==
  (ev.type = "tool" /\ ~ev.preAuth /\ ~ev.own /\ ~ev.mine) => ev.from = "none"

\* C2: in part_010 a tool call handled for session A, whose request
\* presents the key A authenticated with, never resolves an adapter built
\* from another session's key.
C2_NoCrossSessionAdapter ==
  (variant = "part010" /\ ev.type = "tool" /\ ev.bearer = ev.sessKey
     /\ ev.from # "none")
    => ev.key = ev.sessKey

\* C3: once a session bound a registry entry (authenticate tool, or the
\* OAuth link), a later tool call on that session without a bearer token
\* resolves an adapter that session bound.
C3_BoundSessionResolves ==
  (ev.type = "tool" /\ ev.mine /\ ev.bearer = NoKey) => ev.isMine

\* C4: after the close signal of session S was processed, the registry has
\* no entry under S.
C4_ClosedSessionAbsent ==
  \A u \in Closed : ~Has(sessions, UuidKey(u))

\* C5: every registry entry belongs to a transport that is open.
C5_NoEntryWithoutTransport ==
  \A i \in 1..Len(sessions) : sessions[i].by \in transports

\* C6: the pre-authenticated client wins over the exact registry match, and
\* the exact match over anything else.
C6_ResolutionOrder ==
  ev.type = "tool" =>
    /\ ev.preAuth => ev.from = "preAuth"
    /\ (~ev.preAuth /\ ev.exact) => ev.from = "exact"

\* C7: while session S stays bound, resolve(S) keeps returning the same
\* adapter instance, whatever requests are handled in between.
C7_ResolveIdempotent ==
  [][\A u \in Uuids :
       (Has(sessions, UuidKey(u)) /\ Has(sessions', UuidKey(u)))
         => Get(sessions', UuidKey(u)) = Get(sessions, UuidKey(u))]_vars

\* =====================================================================
\* Properties of the token caches and the credential store
\* =====================================================================

\* C8: a lookup of a token that is cached with expiry E returns the cached
\* credential when the lookup time is strictly before E and finds nothing
\* when it is at or after E, in the persistent and in the in-memory cache.
C8_CachedUntilExpiry ==
  (obs.type \in {"validate", "verify"} /\ obs.had)
    => (obs.hit <=> obs.at < obs.exp)

\* C9: every entry a sweep removes had an expiry at or before the time the
\* sweep started; no entry with a later expiry is removed.
C9_SweepRemovesOnlyExpired ==
  obs.type = "sweep" => \A e \in obs.removed : e <= obs.at

\* a sweep of the persistent cache removed a row and left a live one
C9_Witness ==
  /\ variant = "oauth"
  /\ obs.type = "sweep"
  /\ obs.removed # {}
  /\ \E t \in Tokens :
       token_cache[t] # NoRow /\ DateParse(token_cache[t].expires_at) > now

\* C10: a successful validation for identity u yields the key stored most
\* recently for u.
C10_ValidationUsesLatestKey ==
  (obs.type = "validate" /\ obs.ok
     /\ selectKey(user_api_mappings, obs.user) # NoKey)
    => obs.key = selectKey(user_api_mappings, obs.user)

\* C11: after a successful setApiKeyForUser(u, k, metadata), getApiKeyForUser(u)
\* returns exactly k, the table holds exactly one row for u and it is the
\* new one (key and metadata of an earlier row are gone), and the rows of
\* every other identity are as they were.
C11_SetGetRoundTrip ==
  [][(obs'.type = "set" /\ obs'.ok) =>
       /\ getApiKeyForUser(user_api_mappings', env', obs'.user) = obs'.key
       /\ {r \in user_api_mappings' : r.stytch_user_id = obs'.user}
            = {Mapping(obs'.user, obs'.key, obs'.meta)}
       /\ \A u \in Users \ {obs'.user} :
            {r \in user_api_mappings' : r.stytch_user_id = u}
              = {r \in user_api_mappings : r.stytch_user_id = u}]_vars

\* a set that replaced a stored row while another identity has one too
C11_Witness ==
  /\ obs.type = "set" /\ obs.ok /\ obs.had
  /\ \E r \in user_api_mappings : r.stytch_user_id # obs.user

C13_RawBearerAccepted ==
  (obs.type = "validate" /\ ~stytchClient(env))
    => (obs.ok /\ obs.key = obs.token)

\* C14: on the direct-API-key path (no identity provider configured) two
\* requests that present different bearer tokens never share a session id
\* (hence a transport), and the adapter a request is served with carries
\* that request's own bearer.
C14_DistinctBearersDistinctSessions ==
  (ev.type = "http" /\ ev.authed /\ ~stytchClient(env)) =>
     /\ \A r \in req : (r.token # NoKey /\ r.token # ev.token) => r.sid # ev.sid
     /\ ev.key = ev.token

\* C15: a request without a bearer or with a rejected one is answered 401,
\* one whose identity has no mapping 403, and a request answered 401 or 403
\* is not processed further: no MCP server or transport is created for it
\* and it is not handed to a transport.
C15_RejectedNotProcessed ==
  ev.type = "http" =>
     /\ ev.token = NoKey => ev.sent = 401
     /\ ~ev.authed => ev.sent \in {401, 403}
     /\ ev.sent \in {401, 403} => (~ev.created /\ ~ev.handled)

\* C16: a validation that fails because the identity provider or the
\* credential store could not be reached is not answered as invalid_token.
C16_OutageIsNotInvalidToken ==
  (obs.type = "validate" /\ obs.cause \in {"store", "provider"}) =>
     obs.error # "invalid_token"

\* C17: when the credential store is unavailable a request that presents a
\* bearer is not carried on: no MCP server or transport is created for it
\* and it is not handed to a transport.
C17_StoreDownNotCarriedOn ==
  (ev.type = "http" /\ ev.token # NoKey /\ obs.cause = "store") =>
     (~ev.created /\ ~ev.handled)

\* C18: a tool call for which getClient resolves no adapter returns a
\* result with isError set and the "Not authenticated" message, nothing is
\* thrown into the transport, and the call closes no transport and removes
\* no registry entry.
C18_NoCredentialIsErrorResult ==
  [][(ev'.type = "tool" /\ ev'.from = "none") =>
        /\ ev'.result.isError /\ ~ev'.result.thrown
        /\ ev'.result.text = "Not authenticated"
        /\ transports' = transports
        /\ \A i \in 1..Len(sessions) : Has(sessions', sessions[i].sid)]_vars

\* a session that holds an open transport calls a tool with nothing bound
C18_Witness ==
  /\ ev.type = "tool" /\ ev.from = "none" /\ ev.result.isError
  /\ transports # {}

\* C19: when create-task or create-note created the entity, the result has
\* no error flag and reports success; every requested link was attempted,
\* the person link also after a failed company link; and exactly the links
\* whose call failed are reported as failed, the others as linked.
C19_LinkFailureIsPartialSuccess ==
  (result.tool = "create" /\ result.crm.create = "ok") =>
     /\ ~result.isError /\ result.success
     /\ \A t \in {"company", "person"} :
          LET id == IF t = "company" THEN result.params.linkToCompanyId
                    ELSE result.params.linkToPersonId
              ok == IF t = "company" THEN result.crm.company
                    ELSE result.crm.person
              attempted == \E i \in 1..Len(calls) : calls[i].target = t
              In(q) == \E i \in 1..Len(q) : q[i] = t
          IN /\ truthy(id) <=> attempted
             /\ In(result.failed) <=> (truthy(id) /\ ~ok)
             /\ In(result.linked) <=> (truthy(id) /\ ok)

\* the company link failed, the person link was still attempted and made
C19_Witness ==
  /\ result.tool = "create" /\ result.success
  /\ result.failed = <<"company">> /\ result.linked = <<"person">>
  /\ Len(calls) = 3

\* C20: a payload sent for a task or note has no bodyV2 or a bodyV2 with
\* both markdown and blocknote (never an empty object); with only markdown
\* supplied blocknote is the empty string.
C20_BodyV2BothOrNone ==
  \A i \in 1..Len(calls) :
     calls[i].bodyV2.has =>
        /\ {f[1] : f \in calls[i].bodyV2.fields} = {"markdown", "blocknote"}
        /\ result.params.bodyBlocknote = "undefined" =>
              <<"blocknote", "">> \in calls[i].bodyV2.fields

\* C21: while one request is handled, a connectivity check that failed for
\* a key is not issued again with the same key.
C21_NoRetryOfFailedCheck ==
  ev.type = "tool" =>
     \A i \in 1..Len(ev.checks) : \A j \in 1..Len(ev.checks) :
        (i < j /\ ~ev.checks[i].ok) => ev.checks[j].key # ev.checks[i].key

C23_OnlyAuthenticateWrites ==
  [][ev'.type = "tool" =>
        /\ user_api_mappings' = user_api_mappings
        /\ token_cache' = token_cache
        /\ sessionTokens' = sessionTokens
        /\ IF variant = "index_http"
           THEN /\ Len(sessions') >= Len(sessions)
                /\ \A i \in 1..Len(sessions) : sessions'[i] = sessions[i]
                /\ \A i \in (Len(sessions) + 1)..Len(sessions') :
                      /\ sessions'[i].sid = UuidKey(sessions'[i].by)
                      /\ sessions'[i].client.key = sessionTokens[sessions'[i].by]
           ELSE sessions' = sessions]_vars

\* a tool call that failed and one that succeeded, each with bindings present
C23_Witness ==
  /\ ev.type = "tool" /\ ev.result.isError
  /\ Len(sessions) > 0

\* C24: in one create-task or create-note invocation the first request is
\* the create and link requests come only after it returned an id; when the
\* create fails or returns no id, no link request is issued and the result
\* is an error.
C24_LinkOnlyAfterCreate ==
  result.tool = "create" =>
     /\ Len(calls) >= 1 /\ calls[1].target = "none"
     /\ \A i \in 2..Len(calls) : calls[i].target # "none"
     /\ result.crm.create # "ok" => (Len(calls) = 1 /\ result.isError)
     /\ Len(calls) > 1 => result.crm.create = "ok"

\* a create that returned no id although both links were asked for
C24_Witness ==
  /\ result.tool = "create" /\ result.crm.create = "noid" /\ result.isError
  /\ truthy(result.params.linkToCompanyId)
  /\ truthy(result.params.linkToPersonId)
  /\ Len(calls) = 1

\* =====================================================================
\* OAuth router: POST /oauth/api-key-submit and POST /oauth/token, with
\* the provider's authorization-code store.  One tick of the clock is
\* five minutes here.
\* =====================================================================
CodeTtl == 2                       \* 10 * 60 * 1000 ms, in ticks
MaxCodeTime == 3                   \* the clock of this router stops here
SubmittedKeys == {"k1", "bad", "eyJ2"}
InvalidCode == "Invalid or expired authorization code"

\* storeAuthorizationCode: expiresAt = new Date(Date.now() + 10 minutes)
storeAuthorizationCode(m, code, apiKey, clientId, sessionId) ==
  [m EXCEPT ![code] = [apiKey |-> apiKey, clientId |-> clientId,
                       expiresAt |-> now + CodeTtl, sessionId |-> sessionId]]

\* token(): !codeInfo || codeInfo.expiresAt < new Date()  =>  throw
codeLive(info, n) == info # NoCode /\ ~(info.expiresAt < n)

\* verifyAccessToken as the router uses it: does it resolve for this key,
\* and the tokenCache it leaves
verifies(token) ==
  \/ cacheFresh(tokenCache[token], now)
  \/ IF token \in Jwts /\ payload(token).api_key = NoKey THEN TRUE
     ELSE testConnection(IF token \in Jwts THEN payload(token).api_key
                         ELSE token)
verifiedCache(token) ==
  IF cacheFresh(tokenCache[token], now) \/ ~verifies(token) THEN tokenCache
  ELSE [tokenCache EXCEPT ![token] =
          [key |-> IF token \in Jwts /\ payload(token).api_key # NoKey
                   THEN payload(token).api_key ELSE token,
           expiresAt |-> IF token \in Jwts /\ payload(token).exp # 0
                         THEN payload(token).exp
                         ELSE now + 144 * CodeTtl,    \* 24 hours
           checked |-> ~(token \in Jwts /\ payload(token).api_key = NoKey)]]

\* sessionTokens.set(sessionId, apiKey), when a session id is there
linked(m, sessionId, apiKey) ==
  IF sessionId = NoSession THEN m ELSE [m EXCEPT ![sessionId] = apiKey]

\* POST /oauth/api-key-submit
apiKeySubmit(api_key, client_id, response_type, session_id) ==
  /\ variant = "oauth_router"
  /\ nextUuid \in Uuids
  /\ tokenCache' = verifiedCache(api_key)
  /\ IF ~verifies(api_key)
     THEN /\ tokenResponse' = Response("submit", UnknownId, 200, NoKey,
                                       "Invalid API key")
          /\ UNCHANGED <<authorizationCodes, sessionTokens, nextUuid>>
     ELSE IF response_type = "code"
     THEN /\ authorizationCodes' =
                storeAuthorizationCode(authorizationCodes, nextUuid,
                                       api_key, client_id, session_id)
          /\ sessionTokens' = linked(sessionTokens, session_id, api_key)
          /\ nextUuid' = nextUuid + 1
          /\ tokenResponse' = Response("submit", nextUuid, 302, NoKey,
                                       "none")
     ELSE /\ tokenResponse' = Response("submit", UnknownId, 302, api_key,
                                       "none")
          /\ UNCHANGED <<authorizationCodes, sessionTokens, nextUuid>>
  /\ obs' = NoObs
  /\ UNCHANGED <<variant, sessions, transports, defaultClient,
                 currentRequestClient, req, nextClient, initKey, ev, env,
                 now, token_cache, user_api_mappings, toolVars, proc,
                 exchanged>>

\* token() without authorizationCodes.delete(params.code)
token_keep(m, st, code) ==
  LET codeInfo == m[code]
  IN IF ~codeLive(codeInfo, now)
     THEN [ok |-> FALSE, access_token |-> NoKey, error |-> InvalidCode,
           codes |-> m, links |-> st]
     ELSE [ok |-> TRUE, access_token |-> codeInfo.apiKey, error |-> "none",
           codes |-> m,
           links |-> linked(st, codeInfo.sessionId, codeInfo.apiKey)]

\* provider.token(params) for grant_type authorization_code: what it
\* returns or throws, the code store and the links it leaves
token(m, st, code) ==
  LET codeInfo == m[code]
  IN IF ~codeLive(codeInfo, now)
     THEN [ok |-> FALSE, access_token |-> NoKey, error |-> InvalidCode,
           codes |-> m, links |-> st]
     ELSE [ok |-> TRUE, access_token |-> codeInfo.apiKey, error |-> "none",
           codes |-> [m EXCEPT ![code] = NoCode],
           links |-> linked(st, codeInfo.sessionId, codeInfo.apiKey)]

\* POST /oauth/token; h is req.cookies?.mcp_session || x-mcp-session-id
oauthToken(grant, code, api_key, h) ==
  /\ variant = "oauth_router"
  /\ LET t == IF grant = "api_key"
              THEN [ok |-> verifies(api_key), access_token |-> api_key,
                    error |-> "Invalid API key", codes |-> authorizationCodes,
                    links |-> sessionTokens]
              ELSE token(authorizationCodes, sessionTokens, code)
         c == IF grant = "api_key" THEN UnknownId ELSE code
     IN /\ tokenCache' = IF grant = "api_key" THEN verifiedCache(api_key)
                         ELSE tokenCache
        /\ authorizationCodes' = t.codes
        /\ IF t.ok
           THEN /\ sessionTokens' = linked(t.links, h, t.access_token)
                /\ tokenResponse' = Response(grant, c, 200, t.access_token,
                                             "none")
                /\ exchanged' = IF grant = "api_key" THEN exchanged
                                ELSE exchanged \cup {code}
           ELSE /\ sessionTokens' = t.links
                /\ tokenResponse' = Response(grant, c, 400, NoKey, t.error)
                /\ UNCHANGED exchanged
  /\ obs' = NoObs
  /\ UNCHANGED <<variant, sessions, transports, defaultClient,
                 currentRequestClient, req, nextClient, nextUuid, initKey,
                 ev, env, now, token_cache, user_api_mappings, toolVars,
                 proc>>

\* five minutes pass
TickCodes ==
  /\ variant = "oauth_router"
  /\ now < MaxCodeTime
  /\ now' = now + 1
  /\ tokenResponse' = NoResponse
  /\ obs' = NoObs
  /\ UNCHANGED <<variant, sessVars, env, token_cache, user_api_mappings,
                 tokenCache, toolVars, proc, authorizationCodes, exchanged>>

InitCodesSpec ==
  /\ variant = "oauth_router"
  /\ env = NoEnv
  /\ InitSess
  /\ InitStore
  /\ InitTools
  /\ proc = Listening
  /\ InitCodes

NextCodes ==
  \/ \E k \in SubmittedKeys, c \in {"client"}, rt \in {"code", "token"},
        sid \in {NoSession, 1} : apiKeySubmit(k, c, rt, sid)
  \/ \E g \in {"authorization_code", "api_key"}, h \in {NoSession, 2} :
        \E code \in (IF g = "api_key" THEN {UnknownId} ELSE CodeIds),
           k \in (IF g = "api_key" THEN SubmittedKeys ELSE {NoKey}) :
           oauthToken(g, code, k, h)
  \/ TickCodes

SpecCodes == InitCodesSpec /\ [][NextCodes]_vars

\* C25: a successful validation for an identity that has a credential
\* mapping refreshes the mapping's last_used, also when it is answered from
\* the token cache; a failed validation refreshes none.
C25_ValidationRefreshesLastUsed ==
  obs.type = "validate" =>
     /\ (obs.ok /\ selectKey(user_api_mappings, obs.user) # NoKey) =>
           obs.touched = obs.user
     /\ ~obs.ok => obs.touched = NoUser

\* C27: the OAuth middleware accepts a bearer token (passes the request
\* on with a key attached, the token cached) only if a connectivity check
\* with that key has succeeded for the token, in this verification or in
\* the one that stored the cache entry it is answered from; tokens that
\* start with 'eyJ' are no exception.
C27_AcceptedOnlyAfterCheck ==
  (obs.type = "verify" /\ obs.ok) =>
     /\ tokenCache[obs.token] # NoInfo
     /\ tokenCache[obs.token].checked
     /\ obs.cause \in {"checked", "cache"}

\* C28: a streamable-HTTP POST, GET or DELETE that is answered 400 (no
\* session id on a non-initialize request, or a session id with no known
\* transport) leaves the session registry and the transport map unchanged,
\* with or without a valid bearer.
C28_RejectedLeavesRegistry ==
  [][ev'.type = "400" => (sessions' = sessions /\ transports' = transports)]_vars

\* C29: when the authenticate tool's connectivity check fails the tool
\* returns an error result and leaves the registry as it found it (in
\* index.ts over streamable-http the request's session fallback may have
\* appended the linked key's binding before the tool ran); a binding under a
\* tool key is written or replaced only by a call whose check succeeded,
\* and then it carries the key that was checked.
C29_FailedAuthenticateBindsNothing ==
  [][ev'.type = "authenticate" =>
        /\ ~testConnection(ev'.bearer) =>
              /\ ev'.result.isError
              /\ Len(sessions') >= Len(sessions)
              /\ \A i \in 1..Len(sessions) : sessions'[i] = sessions[i]
              /\ \A i \in (Len(sessions) + 1)..Len(sessions') :
                    /\ variant = "index_http"
                    /\ sessions'[i].sid = UuidKey(sessions'[i].by)
        /\ \A i \in 1..Len(sessions') :
              (/\ sessions'[i].sid # UuidKey(sessions'[i].by)
               /\ (i > Len(sessions) \/ sessions'[i] # sessions[i]))
                 => /\ testConnection(ev'.bearer)
                    /\ ~ev'.result.isError
                    /\ sessions'[i].client.key = ev'.bearer]_vars
\* a failed authenticate call that found a binding under its own key
C29_Witness ==
  ev.type = "authenticate" /\ ev.result.isError /\ ev.exact

\* C30: a session bound when a streamable-HTTP connection was established
\* stays bound, and its transport registered, until the transport itself
\* closes; the close of one request's HTTP response removes neither.  (No
\* step of part_006 over streamable-http is a close of the transport.)
C30_SessionOutlivesResponse ==
  [][\A sid \in transports :
        Has(sessions, sid) => (Has(sessions', sid) /\ sid \in transports')]_vars

\* C26: an authorization code is exchanged at most once and only within
\* 10 minutes of being stored: the first exchange of a live code deletes it
\* and returns the key stored with it; an exchange of a code that was
\* already exchanged, has expired or was never stored fails with "Invalid
\* or expired authorization code", links no session and changes no code.
C26_CodeExchangedOnce ==
  [][/\ \A c \in CodeIds :
          authorizationCodes'[c] # NoCode =>
             authorizationCodes'[c].expiresAt <= now' + CodeTtl
     /\ (tokenResponse'.type = "authorization_code" /\ now' = now) =>
          LET c    == tokenResponse'.code
              info == authorizationCodes[c]
              live == /\ info # NoCode
                      /\ now <= info.expiresAt
                      /\ c \notin exchanged
          IN IF live
             THEN /\ tokenResponse'.status = 200
                  /\ tokenResponse'.access_token = info.apiKey
                  /\ authorizationCodes'[c] = NoCode
                  /\ exchanged' = exchanged \cup {c}
             ELSE /\ tokenResponse'.status = 400
                  /\ tokenResponse'.error = InvalidCode
                  /\ sessionTokens' = sessionTokens
                  /\ authorizationCodes' = authorizationCodes
                  /\ exchanged' = exchanged]_vars
\* a second exchange of a redeemed code was refused
C26_Witness ==
  /\ tokenResponse.type = "authorization_code"
  /\ tokenResponse.status = 400
  /\ tokenResponse.code \in exchanged

====
